---- MODULE Spec2Model ----
(***************************************************************************)
(* The cost-minimizing rebalancing notebook (slippage-implementation-1)    *)
(* and the bid-ask bounce feature of the README, as a state machine.       *)
(*                                                                         *)
(* The notebook is a sequence of cells: the setup cell binds n, w, a_bar   *)
(* and r_min; the value cell prints the current and the expected value;    *)
(* the solve cell builds the convex program and calls problem.solve(); the *)
(* portfolio cell prints w + x.value.  The solve cell may be run twice.    *)
(*                                                                         *)
(* Numbers.  Holdings are integers (np.random.randint).  Expected returns  *)
(* and the return floor are integers in one common unit.  The trade vector *)
(* x is real in the code; here it is the integer vector X with x = X/den,  *)
(* den being the resolution of the lattice the solver's answers are drawn  *)
(* from.  A Python None is the empty tuple.                                *)
(***************************************************************************)
EXTENDS Integers, Sequences, FiniteSets, TLC

VARIABLES pc, n, w, a_bar, r_min, den, valueOut, status, value, xval,
          runs, prev, portfolioOut, quote, bounce

vars == <<pc, n, w, a_bar, r_min, den, valueOut, status, value, xval,
          runs, prev, portfolioOut, quote, bounce>>

nbVars == <<pc, n, w, a_bar, r_min, den, valueOut, status, value, xval,
            runs, prev, portfolioOut>>

(***************************************************************************)
(* Bounds of the explored inputs.                                          *)
(***************************************************************************)
MaxN == 2
MaxValue == 2
MaxA == 2
FullSearchMax == 3
FloorSteps == 11
DemoDen == 100
MaxPrice == 5

(* np.ones(n) + np.random.rand(n): no expected return is below one unit.   *)
MinA == 1
(* The least holding explored: one unit short, a malformed PortfolioState. *)
MinW == 0 - 1

None == <<>>

Abs(v) == IF v < 0 THEN 0 - v ELSE v

RECURSIVE Gcd(_, _)
Gcd(p, q) == IF q = 0 THEN p ELSE Gcd(q, p % q)

RECURSIVE LcmUpTo(_)
LcmUpTo(k) == IF k <= 1 THEN 1 ELSE (LcmUpTo(k - 1) * k) \div Gcd(LcmUpTo(k - 1), k)

(* Resolution of the trade lattice for the explored returns: every         *)
(* quotient by a difference of two expected returns is a lattice point.    *)
XDen == LcmUpTo(MaxA - MinA)

RECURSIVE SumTo(_, _)
SumTo(f, k) == IF k = 0 THEN 0 ELSE f[k] + SumTo(f, k - 1)

(* sum(v), cp.sum(v)                                                       *)
Sum(v) == SumTo(v, Len(v))

RECURSIVE DotTo(_, _, _)
DotTo(f, g, k) == IF k = 0 THEN 0 ELSE f[k] * g[k] + DotTo(f, g, k - 1)

(* a_bar.T @ v                                                             *)
Dot(f, g) == DotTo(f, g, Len(f))

MinOf(S) == CHOOSE c \in S : \A d \in S : c <= d

MaxOf(S) == CHOOSE c \in S : \A d \in S : c >= d

Range(f) == {f[i] : i \in DOMAIN f}

(* w + x, in lattice units: den * w + X                                    *)
Holdings(ww, X, dn) == [i \in 1..Len(ww) |-> dn * ww[i] + X[i]]

Scaled(ww, dn) == [i \in 1..Len(ww) |-> dn * ww[i]]

phiNoAbs(X) == Sum(X)

(* def phi(x): return cp.sum(cp.abs(x))                                    *)
phi(X) == Sum([i \in 1..Len(X) |-> Abs(X[i])])

MinReturnNoDivision(ww, aa, rr, dn, X) == Dot(aa, Holdings(ww, X, dn)) >= rr * dn

(* a_bar.T @ (w + x) / sum(w) >= r_min.  The division by sum(w) is kept:   *)
(* a negative sum turns the inequality, a zero sum has no quotient         *)
(* (problem_solve raises before the constraint is evaluated).              *)
MinReturn(ww, aa, rr, dn, X) ==
    IF Sum(ww) > 0
    THEN Dot(aa, Holdings(ww, X, dn)) >= rr * dn * Sum(ww)
    ELSE Dot(aa, Holdings(ww, X, dn)) <= rr * dn * Sum(ww)

(* cp.sum(w + x) == cp.sum(w)                                              *)
SameValue(ww, dn, X) == Sum(Holdings(ww, X, dn)) = Sum(Scaled(ww, dn))

constraintsNoFloor(ww, aa, rr, dn, X) == SameValue(ww, dn, X)

constraintsNoBudget(ww, aa, rr, dn, X) == MinReturn(ww, aa, rr, dn, X)

(* constraints = [minimum expected return, total value remains the same]   *)
constraints(ww, aa, rr, dn, X) ==
    /\ MinReturn(ww, aa, rr, dn, X)
    /\ SameValue(ww, dn, X)

(***************************************************************************)
(* The solver.  problem.solve() is cvxpy's: it answers with a minimizer of *)
(* the objective over the vectors satisfying the constraints, or with the  *)
(* status "infeasible" (value inf, x.value None) when there is none.  The  *)
(* vectors it is asked about here are the lattice vectors in a window      *)
(* around the zero trade: every vector of the unit box, and beyond it the  *)
(* vectors of zero sum (all of them up to FullSearchMax assets, the        *)
(* single-pair trades above).  The window is wide enough to hold every     *)
(* optimal lattice vector: a trade cheaper than the best pair trade moves  *)
(* less than that trade does.                                              *)
(***************************************************************************)
Spread(aa) == MaxOf(Range(aa)) - MinOf(Range(aa))

Shortfall(ww, aa, rr) == rr * Sum(ww) - Dot(aa, ww)

SearchRadius(ww, aa, rr, dn) ==
    (dn * Abs(Shortfall(ww, aa, rr))) \div (IF Spread(aa) = 0 THEN 1 ELSE Spread(aa)) + 1

UnitBox(k) == [1..k -> (0 - 1)..1]

Balanced(k, R) ==
    {Append(p, 0 - Sum(p)) : p \in {q \in [1..(k - 1) -> (0 - R)..R] : Abs(Sum(q)) <= R}}

Trade(k, i, j, t) == [m \in 1..k |-> IF m = i THEN t ELSE IF m = j THEN 0 - t ELSE 0]

(* the single-pair trades up to R that satisfy the constraints             *)
PairTrades(ww, aa, rr, dn, R) ==
    {Trade(Len(ww), tr[1], tr[2], tr[3]) :
        tr \in {u \in (1..Len(ww)) \X (1..Len(ww)) \X (0..R) :
                   /\ u[1] # u[2]
                   /\ constraints(ww, aa, rr, dn, Trade(Len(ww), u[1], u[2], u[3]))}}

(* x = cp.Variable(n) under the constraints: the vectors of the window     *)
(* that satisfy them                                                       *)
Feasible(ww, aa, rr, dn) ==
    {X \in UnitBox(Len(ww)) : constraints(ww, aa, rr, dn, X)}
       \cup (IF Len(ww) <= FullSearchMax
             THEN {X \in Balanced(Len(ww), SearchRadius(ww, aa, rr, dn)) :
                      constraints(ww, aa, rr, dn, X)}
             ELSE PairTrades(ww, aa, rr, dn, SearchRadius(ww, aa, rr, dn)))

objectiveAnyFeasible(F) == F

(* objective = cp.Minimize(phi(x)): the minimizers of phi among F          *)
objective(F) ==
    UNION {UNION {{X \in F : phi(X) = m} : m \in {MinOf(C)}} : C \in {{phi(X) : X \in F}}}

(* problem = cp.Problem(objective, constraints); result = problem.solve(): *)
(* the outcomes <<problem.status, problem.value, x.value>>.  With sum(w)   *)
(* zero the constraint divides by zero and the program handed to the       *)
(* solver has non-finite coefficients: the call raises.                    *)
problem_solve(ww, aa, rr, dn) ==
    IF Sum(ww) = 0
    THEN {<<"error", None, None>>}
    ELSE UNION {IF F = {}
                THEN {<<"infeasible", <<"inf">>, None>>}
                ELSE {<<"optimal", <<"num", phi(X)>>, X>> : X \in objective(F)}
                : F \in {Feasible(ww, aa, rr, dn)}}

OptimizedPortfolioSubtract(ww, xv, dn) ==
    IF xv = None
    THEN <<"TypeError">>
    ELSE <<"printed", [i \in 1..Len(ww) |-> dn * ww[i] - xv[i]]>>

OptimizedPortfolioNoneAsZero(ww, xv, dn) ==
    IF xv = None THEN <<"printed", Scaled(ww, dn)>> ELSE <<"printed", Holdings(ww, xv, dn)>>

(* print("Optimized portfolio:", w + x.value): ndarray + None raises       *)
OptimizedPortfolio(ww, xv, dn) ==
    IF xv = None THEN <<"TypeError">> ELSE <<"printed", Holdings(ww, xv, dn)>>

(***************************************************************************)
(* The demo of the notebook: np.random.seed(0), n = 5.  Expected returns   *)
(* in units of 1e-4, as the notebook prints them, rounded.                 *)
(***************************************************************************)
nDemo == 5
DemoW == <<45, 48, 65, 68, 68>>
DemoA == <<18473, 16236, 13844, 12975, 10567>>
RMinDemo == 15000
DemoFloors == {RMinDemo + 100 * k : k \in (0 - FloorSteps)..FloorSteps}

(***************************************************************************)
(* The cells.                                                              *)
(***************************************************************************)
Init ==
    /\ pc = "start"
    /\ n = 0
    /\ w = <<>>
    /\ a_bar = <<>>
    /\ r_min = 0
    /\ den = 1
    /\ valueOut = None
    /\ status = "unsolved"
    /\ value = None
    /\ xval = None
    /\ runs = 0
    /\ prev = None
    /\ portfolioOut = None
    /\ quote = None
    /\ bounce = None

(* The holdings explored: k assets of gross value at most MaxValue         *)
Portfolios(k) ==
    {v \in [1..k -> MinW..MaxValue] : Sum([i \in 1..k |-> Abs(v[i])]) <= MaxValue}

(* n; w = np.random.randint(...); a_bar = np.ones(n) + np.random.rand(n);  *)
(* r_min: any bindings of the explored ranges, the floor from the least    *)
(* return to one unit above the largest                                    *)
SetupCell ==
    /\ pc = "start"
    /\ \E k \in 1..MaxN :
         \E ww \in Portfolios(k), aa \in [1..k -> MinA..MaxA], rr \in MinA..(MaxA + 1) :
            /\ n' = k
            /\ w' = ww
            /\ a_bar' = aa
            /\ r_min' = rr
    /\ den' = XDen
    /\ pc' = "setup"
    /\ UNCHANGED <<valueOut, status, value, xval, runs, prev, portfolioOut, quote, bounce>>

(* the same cell with the seed kept: the printed w and a_bar; r_min is the *)
(* parameter the reader is invited to vary                                 *)
SeededSetupCell ==
    /\ pc = "start"
    /\ n' = nDemo
    /\ w' = DemoW
    /\ a_bar' = DemoA
    /\ \E rr \in DemoFloors : r_min' = rr
    /\ den' = DemoDen
    /\ pc' = "setup"
    /\ UNCHANGED <<valueOut, status, value, xval, runs, prev, portfolioOut, quote, bounce>>

(* print("Current portfolio value:", sum(w), ..., a_bar.T @ w)             *)
ValueCell ==
    /\ pc = "setup"
    /\ valueOut' = <<Sum(w), Dot(a_bar, w)>>
    /\ pc' = "valued"
    /\ UNCHANGED <<n, w, a_bar, r_min, den, status, value, xval, runs, prev, portfolioOut,
                   quote, bounce>>

(* The solve cell.  It runs after the value cell, and once more with the   *)
(* same bindings (the second of two calls with identical input).           *)
SolveCell ==
    /\ \/ pc = "valued"
       \/ pc = "solved" /\ prev = None
    /\ \E out \in problem_solve(w, a_bar, r_min, den) :
          /\ status' = out[1]
          /\ value' = out[2]
          /\ xval' = out[3]
    /\ prev' = IF runs = 0 THEN None ELSE <<status, value>>
    /\ runs' = runs + 1
    /\ pc' = "solved"
    /\ UNCHANGED <<n, w, a_bar, r_min, den, valueOut, portfolioOut, quote, bounce>>

PortfolioCell ==
    /\ pc = "solved"
    /\ portfolioOut' = OptimizedPortfolio(w, xval, den)
    /\ pc' = "done"
    /\ UNCHANGED <<n, w, a_bar, r_min, den, valueOut, status, value, xval, runs, prev,
                   quote, bounce>>

(***************************************************************************)
(* Bid-ask bounce (README, feature 4): where the trade price t falls in    *)
(* the quoted spread from the best bid b to the best ask a.  The value is  *)
(* the fraction p/q kept as <<"ratio", p, q>> with q > 0.                  *)
(***************************************************************************)
Ratio(p, q) == IF q < 0 THEN <<"ratio", 0 - p, 0 - q>> ELSE <<"ratio", p, q>>

BidAskBounceClamped(t, b, a) ==
    IF a = b THEN <<"undefined">>
    ELSE IF (t - b) * (a - b) < 0 THEN Ratio(0, 1)
    ELSE IF Abs(t - b) > Abs(a - b) THEN Ratio(1, 1)
    ELSE Ratio(t - b, a - b)

BidAskBounce(t, b, a) ==
    IF a = b THEN <<"undefined">> ELSE Ratio(t - b, a - b)

BounceFeature ==
    /\ quote = None
    /\ \E t \in 1..MaxPrice, b \in 1..MaxPrice, a \in 1..MaxPrice :
          /\ quote' = <<t, b, a>>
          /\ bounce' = BidAskBounce(t, b, a)
    /\ UNCHANGED nbVars

Next == SetupCell \/ ValueCell \/ SolveCell \/ PortfolioCell

Spec == Init /\ [][Next]_vars

NextDemo == SeededSetupCell \/ ValueCell \/ SolveCell \/ PortfolioCell

SpecDemo == Init /\ [][NextDemo]_vars

NextBounce == BounceFeature

SpecBounce == Init /\ [][NextBounce]_vars

(***************************************************************************)
(* Shorthands of the properties.                                           *)
(***************************************************************************)
Solved == pc \in {"solved", "done"}

(* A valid PortfolioState: n >= 1 and no negative holding.  The lengths    *)
(* agree and min_return is finite in every state of this model.            *)
Valid == n >= 1 /\ \A i \in 1..n : w[i] >= 0

MaxReturn == MaxOf(Range(a_bar))

(* sum of |x_i|, as the claims state it                                    *)
L1(X) == Sum([i \in 1..Len(X) |-> IF X[i] >= 0 THEN X[i] ELSE 0 - X[i]])

(* p / q >= r for a quotient with q # 0                                    *)
QuotientAtLeast(p, q, r) == (q > 0 /\ p >= r * q) \/ (q < 0 /\ p <= r * q)

(* v (in lattice units) is within 0.02 of ref (in hundredths)              *)
Approx(v, ref) == Abs(100 * v - ref * den) <= 2 * den

(* C1: every trade vector the solve returns is feasible: the total value   *)
(* is conserved (sum(x) = 0, sum(w + x) = sum(w)) and the weighted return  *)
(* dot(a, w + x) / sum(w) is at least min_return.                          *)
C1_Feasible ==
    (Solved /\ xval # None) =>
        /\ Sum(xval) = 0
        /\ Sum(Holdings(w, xval, den)) = den * Sum(w)
        /\ QuotientAtLeast(Dot(a_bar, Holdings(w, xval, den)), den * Sum(w), r_min)

C1_Witness == Solved /\ xval # None /\ L1(xval) > 0 /\ Valid

(* C2: the returned trade vector has the least total absolute volume: no   *)
(* vector satisfying both constraints has a smaller sum of |x_i|.  A       *)
(* vector of zero sum moves at most half its volume in one asset, so the   *)
(* cheaper vectors all lie within that radius.                             *)
C2_Minimal ==
    (pc = "solved" /\ runs = 1 /\ xval # None) =>
        \A B \in {L1(xval)} :
            \A Y \in UnitBox(n) \cup Balanced(n, B \div 2) :
                constraints(w, a_bar, r_min, den, Y) => L1(Y) >= B

C2_Witness == pc = "solved" /\ runs = 1 /\ xval # None /\ L1(xval) > 0 /\ Valid

C4_Claim ==
    (Solved /\ Valid /\ r_min <= MaxReturn) => (status = "optimal" /\ xval # None)

(* C5: an infeasible solve is a distinct outcome and never a numeric one:  *)
(* no trade vector is set (not the zero trade either), the value is inf,   *)
(* and the portfolio cell shows no portfolio (it raises).                  *)
C5_InfeasibleDistinct ==
    (Solved /\ status # "optimal") =>
        /\ xval = None
        /\ status = "infeasible" => value = <<"inf">>
        /\ pc = "done" => portfolioOut = <<"TypeError">>

C5_Witness == pc = "done" /\ status = "infeasible" /\ Valid

(* C6: a malformed PortfolioState (a negative holding) is rejected before  *)
(* the solve: the solver is never called and no trade vector is produced.  *)
C6_Claim ==
    (pc # "start" /\ ~Valid) => (runs = 0 /\ status = "unsolved" /\ xval = None)

DemoDone == pc = "done" /\ r_min = RMinDemo

RefPortfolio == <<8278, 4800, 6500, 6800, 3022>>

DemoCommon ==
    /\ status = "optimal"
    /\ valueOut[1] = 294
    /\ portfolioOut[1] = "printed"
    /\ Sum(portfolioOut[2]) = den * 294
    /\ Dot(a_bar, portfolioOut[2]) >= r_min * den * 294
    /\ \A i \in 1..n : Approx(portfolioOut[2][i], RefPortfolio[i])

IsRawRatio(t, b, a) ==
    /\ bounce[1] = "ratio"
    /\ bounce[3] # 0
    /\ bounce[2] * (a - b) = bounce[3] * (t - b)

OutsideUnit == bounce[2] < 0 \/ bounce[2] > bounce[3]

(* C9 as stated: for a # b the bounce is the raw ratio (t - b) / (a - b),  *)
(* 0 at the bid, 1 at the ask, outside [0,1] whenever the trade is above   *)
(* the ask or below the bid, and undefined for a = b.                      *)
C9_Original ==
    (quote # None) =>
        \A t \in {quote[1]}, b \in {quote[2]}, a \in {quote[3]} :
            /\ a = b => bounce = <<"undefined">>
            /\ a # b =>
                 /\ IsRawRatio(t, b, a)
                 /\ t = b => bounce[2] = 0
                 /\ t = a => bounce[2] = bounce[3]
                 /\ (t > a \/ t < b) => OutsideUnit

(* C9 amended: the same, the out-of-range part for an uncrossed quote      *)
(* (a > b) only.                                                           *)
C9_Amended ==
    (quote # None) =>
        \A t \in {quote[1]}, b \in {quote[2]}, a \in {quote[3]} :
            /\ a = b => bounce = <<"undefined">>
            /\ a # b =>
                 /\ IsRawRatio(t, b, a)
                 /\ t = b => bounce[2] = 0
                 /\ t = a => bounce[2] = bounce[3]
                 /\ (a > b /\ (t > a \/ t < b)) => OutsideUnit

C9_Witness == quote # None /\ quote[3] > quote[2] /\ quote[1] > quote[3] /\ OutsideUnit

====
